---- MODULE Spec2Model ----
(***************************************************************************)
(* Span-augmented skip list of throne-developer/skiplist (skiplist.go,     *)
(* lines 1-520): a sorted set keyed by name, ordered by (score, name),     *)
(* with per-level spans for rank queries.                                  *)
(*                                                                         *)
(* Representation.  Elements live in a heap of node slots; a slot that is  *)
(* not reachable from the list holds Go zero values.  Names are integers   *)
(* standing for strings in their lexicographic order.  Scores are integers *)
(* in units of the tolerance Eps, so two scores that differ by 1 are       *)
(* distinct but within tolerance and two that differ by 2 are apart.       *)
(***************************************************************************)
EXTENDS Integers, Sequences, FiniteSets, TLC

\* ---------------------------------------------------------------- bounds
MaxKeys == 3
MaxScore == 2
MaxDrift == 0
MaxCalls == 4
\* The source sets MaxLevel = 25; the algorithms are the same for any MaxLevel >= 1.
MaxLevel == 3
MaxSeed == 2

\* ------------------------------------------------------------- constants
Eps == 1
HeadNodeName == -1
TailNodeName == -2

Nil == 0
headNode == 1
tailNode == 2

Abs(x) == IF x < 0 THEN -x ELSE x

\* The element of a one-element set.
Only(S) == CHOOSE x \in S : TRUE

\* math.Inf(1) and math.Inf(-1): farther than Eps from every finite score that
\* is stored or asked for.
PosInf == 2 * (MaxScore + Eps + 1)
NegInf == -(2 * (Eps + 1))

Levels == 0 .. (MaxLevel - 1)
Keys == 1 .. MaxKeys
Names == Keys \cup {HeadNodeName, TailNodeName}
\* Finite scores offered to Insert under Spec: neighbours are within Eps.
Scores == 0 .. MaxScore
\* Finite scores offered under SpecSep: pairwise equal or more than Eps apart.
SepScores == {(Eps + 1) * i : i \in 0 .. MaxScore}
\* Raw values of rand.Uint64() offered to generateLevel: every value of the
\* masked bits, and one with a bit set above the mask.
Draws == 0 .. (2 ^ (MaxLevel - 1))

\* A list never holds more real nodes than it has had inserts of distinct
\* names, plus the nodes a failed Delete leaves behind.
MaxNodes == MaxKeys + 1
RealNodes == 3 .. (MaxNodes + 2)
Nodes == {headNode, tailNode} \cup RealNodes

\* The fields of the Elements and of the SkipList, and a record of the calls
\* made: their number, the last one, the finite scores passed to Insert, and
\* the names inserted and not deleted since.  Beside them: a list of the
\* start/end-pointer variant (legacy), a second list of the span variant that
\* is given the same calls in another run (twin), the package-global source of
\* math/rand in the program of each of the two (source, twinSource), and the
\* last value handed to generateLevel with the level returned (draw,
\* levelDrawn).  Last, the goroutines that call the list: where each of them
\* is in its call, with the local variables of Insert (callers), and whether
\* they take one lock around every call (serial).
VARIABLES next, span, prev, name, score, maxLevel, elements,
          calls, call, seen, inserted, legacy,
          twin, source, twinSource, draw, levelDrawn, callers, serial

list == <<next, span, prev, name, score, maxLevel, elements>>

record == <<calls, call, seen, inserted>>

aside == <<twin, source, twinSource, draw, levelDrawn, callers, serial>>

vars == <<list, record, legacy, aside>>

\* The SkipList value together with the heap of Elements it points into.
This ==
  [next |-> next, span |-> span, prev |-> prev, name |-> name, score |-> score,
   maxLevel |-> maxLevel, elements |-> elements]

\* ------------------------------------------------------------ primitives
greaterThan(a, b) == a > b /\ Abs(a - b) > Eps

lessThan(a, b) == a < b /\ Abs(a - b) > Eps

equalFloat(a, b) == Abs(a - b) <= Eps

Less(t, e, sc, nm) ==
  IF Abs(t.score[e] - sc) > Eps THEN t.score[e] < sc ELSE t.name[e] < nm

Equal(t, e, sc, nm) == Abs(t.score[e] - sc) <= Eps /\ t.name[e] = nm

Greater(t, e, sc, nm) ==
  IF Abs(t.score[e] - sc) > Eps THEN t.score[e] > sc ELSE t.name[e] > nm

RECURSIVE TrailingZeros(_, _)
TrailingZeros(x, width) ==
  IF width = 0 THEN 0
  ELSE IF x % 2 = 1 THEN 0
  ELSE 1 + TrailingZeros(x \div 2, width - 1)

\* bits.TrailingZeros64: 64 for x = 0.
TrailingZeros64(x) == TrailingZeros(x, 64)

\* generateLevel returning the count of zero bits as it is.
generateLevelUncapped(r) ==
  LET x == r % (2 ^ (MaxLevel - 1))
  IN TrailingZeros64(x)

generateLevel(r) ==
  LET x == r % (2 ^ (MaxLevel - 1))
      zeroes == TrailingZeros64(x)
  IN IF zeroes < MaxLevel THEN zeroes ELSE MaxLevel - 1

\* --------------------------------------------------------------- the heap
ZeroElement ==
  [next |-> [i \in Levels |-> Nil], span |-> [i \in Levels |-> 0],
   prev |-> Nil, name |-> 0, score |-> 0]

RECURSIVE ReachFrom(_, _)
ReachFrom(t, found) ==
  LET more == {m \in Nodes :
                 \E n \in found : m = t.prev[n] \/ \E i \in Levels : m = t.next[n][i]}
  IN IF more \subseteq found THEN found ELSE ReachFrom(t, found \cup more)

\* Elements the list still refers to.
Live(t) == ReachFrom(t, {headNode, tailNode})

\* Unreferenced Elements are garbage: their slots return to zero values.
Collect(t) ==
  LET live == Live(t)
  IN [t EXCEPT
        !.next = [n \in Nodes |-> IF n \in live THEN t.next[n] ELSE ZeroElement.next],
        !.span = [n \in Nodes |-> IF n \in live THEN t.span[n] ELSE ZeroElement.span],
        !.prev = [n \in Nodes |-> IF n \in live THEN t.prev[n] ELSE ZeroElement.prev],
        !.name = [n \in Nodes |-> IF n \in live THEN t.name[n] ELSE ZeroElement.name],
        !.score = [n \in Nodes |-> IF n \in live THEN t.score[n] ELSE ZeroElement.score]]

FreeNodes(t) == RealNodes \ Live(t)

\* &Element{...}: a fresh slot.  An address carries no meaning beyond identity,
\* so the slot is chosen by the name (the slot of that name when it is free, the
\* lowest free slot otherwise): a sound list then has one representation.
NewElement(t, nm) ==
  IF nm + 2 \in FreeNodes(t) THEN nm + 2
  ELSE CHOOSE n \in FreeNodes(t) : \A m \in FreeNodes(t) : n <= m

\* The base level from node n up to (not including) the tail, as a sequence.
RECURSIVE BaseFrom(_, _)
BaseFrom(t, n) ==
  IF n = tailNode \/ n = Nil THEN << >> ELSE <<n>> \o BaseFrom(t, t.next[n][0])

BaseChain(t) == BaseFrom(t, t.next[headNode][0])

NewSeed ==
  [next |-> [n \in Nodes |-> [i \in Levels |-> IF n = headNode THEN tailNode ELSE Nil]],
   span |-> [n \in Nodes |-> [i \in Levels |-> IF n = headNode THEN 1 ELSE 0]],
   prev |-> [n \in Nodes |-> IF n = tailNode THEN headNode ELSE Nil],
   name |-> [n \in Nodes |-> IF n = headNode THEN HeadNodeName
                             ELSE IF n = tailNode THEN TailNodeName ELSE 0],
   score |-> [n \in Nodes |-> IF n = headNode THEN NegInf
                              ELSE IF n = tailNode THEN PosInf ELSE 0],
   maxLevel |-> 0,
   elements |-> << >>]

\* ------------------------------------------------------------------ Delete
\* The inner loop "for nextNode.Less(score, name)": the node reached on level i.
RECURSIVE WalkLess(_, _, _, _, _)
WalkLess(t, i, currNode, sc, nm) ==
  LET nextNode == t.next[currNode][i]
  IN IF Less(t, nextNode, sc, nm) THEN WalkLess(t, i, nextNode, sc, nm) ELSE currNode

\* One pass of the level loop of Delete, from level i down to level 0.
RECURSIVE DeleteLevels(_, _, _, _, _)
DeleteLevels(t, nm, sc, i, startNode) ==
  LET currNode == WalkLess(t, i, startNode, sc, nm)
      nextNode == t.next[currNode][i]
      t1 ==
        IF Equal(t, nextNode, sc, nm) THEN
          LET delNode == nextNode
              a == [t EXCEPT !.span[currNode][i] = @ + t.span[delNode][i] - 1,
                             !.next[currNode][i] = t.next[delNode][i]]
              b == IF i = 0
                   THEN [a EXCEPT !.prev[a.next[delNode][i]] = currNode,
                                  !.elements = [k \in (DOMAIN a.elements) \ {nm}
                                                  |-> a.elements[k]]]
                   ELSE a
          IN IF b.next[headNode][i] = tailNode /\ i > 0
             THEN [b EXCEPT !.maxLevel = i - 1]
             ELSE b
        ELSE [t EXCEPT !.span[currNode][i] = @ - 1]
  IN IF i = 0 THEN t1 ELSE DeleteLevels(t1, nm, sc, i - 1, currNode)

\* Delete leaving maxLevel as it found it.
DeleteKeepsMaxLevel(t, nm) ==
  IF nm \notin DOMAIN t.elements THEN t
  ELSE
    LET sc == t.elements[nm]
        t1 == DeleteLevels(t, nm, sc, t.maxLevel, headNode)
        t2 == [t1 EXCEPT !.span[headNode] =
                 [i \in Levels |-> IF i >= t1.maxLevel + 1
                                   THEN t1.span[headNode][i] - 1
                                   ELSE t1.span[headNode][i]],
                         !.maxLevel = t.maxLevel]
    IN Collect(t2)

\* Delete without the repair of the backward link of the successor.
DeleteKeepsPrev(t, nm) ==
  IF nm \notin DOMAIN t.elements THEN t
  ELSE
    LET sc == t.elements[nm]
        t1 == DeleteLevels(t, nm, sc, t.maxLevel, headNode)
        t2 == [t1 EXCEPT !.span[headNode] =
                 [i \in Levels |-> IF i >= t1.maxLevel + 1
                                   THEN t1.span[headNode][i] - 1
                                   ELSE t1.span[headNode][i]],
                         !.prev = t.prev]
    IN Collect(t2)

\* The writes of Delete, before the collector takes the Element taken out.
DeleteLinks(t, nm) ==
  IF nm \notin DOMAIN t.elements THEN t
  ELSE
    LET sc == t.elements[nm]
        t1 == DeleteLevels(t, nm, sc, t.maxLevel, headNode)
    IN [t1 EXCEPT !.span[headNode] =
          [i \in Levels |-> IF i >= t1.maxLevel + 1
                            THEN t1.span[headNode][i] - 1
                            ELSE t1.span[headNode][i]]]

Delete(t, nm) ==
  IF nm \notin DOMAIN t.elements THEN t ELSE Collect(DeleteLinks(t, nm))

\* ------------------------------------------------------------------ Insert
NoPrevs == [i \in Levels |-> [node |-> Nil, rank |-> 0]]

\* The descent loop of Insert: records the predecessor and rank per level and
\* splices elem into levels 0..elemLevel on the way down.
RECURSIVE InsertDescent(_, _, _, _, _, _)
InsertDescent(t, elem, elemLevel, index, currNode, prevs) ==
  LET nextNode == t.next[currNode][index]
      less == Less(t, nextNode, t.score[elem], t.name[elem])
      prevs1 == IF ~less THEN [prevs EXCEPT ![index].node = currNode] ELSE prevs
      t1 ==
        IF ~less /\ index <= elemLevel THEN
          LET a == [t EXCEPT !.next[elem][index] = nextNode,
                             !.next[currNode][index] = elem]
          IN IF index = 0
             THEN [a EXCEPT !.prev[elem] = currNode, !.prev[nextNode] = elem]
             ELSE a
        ELSE t
  IN IF less
     THEN InsertDescent(t1, elem, elemLevel, index, nextNode,
                        [prevs1 EXCEPT ![index].rank = @ + t1.span[currNode][index]])
     ELSE IF index - 1 < 0
          THEN [t |-> t1, prevs |-> prevs1]
          ELSE InsertDescent(t1, elem, elemLevel, index - 1, currNode,
                             [prevs1 EXCEPT ![index - 1].rank = prevs1[index].rank])

\* InsertSpans without the loop that adds one to the predecessors' spans on
\* the levels above the new node.
InsertSpansNoBump(t, elem, elemLevel, prevs) ==
  LET elemRank == prevs[0].rank + 1
  IN [t EXCEPT !.span =
        [n \in Nodes |-> [i \in Levels |->
           IF i <= elemLevel THEN
             IF n = elem
             THEN prevs[i].rank + t.span[prevs[i].node][i] - elemRank + 1
             ELSE IF n = prevs[i].node THEN elemRank - prevs[i].rank
             ELSE t.span[n][i]
           ELSE IF i <= t.maxLevel THEN t.span[n][i]
           ELSE
             IF n = headNode THEN t.span[n][i] + 1 ELSE t.span[n][i]]]]

\* The three span loops that close Insert.
InsertSpans(t, elem, elemLevel, prevs) ==
  LET elemRank == prevs[0].rank + 1
  IN [t EXCEPT !.span =
        [n \in Nodes |-> [i \in Levels |->
           IF i <= elemLevel THEN
             IF n = elem
             THEN prevs[i].rank + t.span[prevs[i].node][i] - elemRank + 1
             ELSE IF n = prevs[i].node THEN elemRank - prevs[i].rank
             ELSE t.span[n][i]
           ELSE IF i <= t.maxLevel THEN
             IF n = prevs[i].node THEN t.span[n][i] + 1 ELSE t.span[n][i]
           ELSE
             IF n = headNode THEN t.span[n][i] + 1 ELSE t.span[n][i]]]]

\* InsertNew setting maxLevel to the level of the new element in every case.
InsertNewSetsLevel(t, nm, sc, r) ==
  LET drawn == generateLevel(r)
      elemLevel == IF drawn > t.maxLevel THEN t.maxLevel + 1 ELSE drawn
      elem == NewElement(t, nm)
      t1 == [t EXCEPT !.maxLevel = elemLevel,
                      !.name[elem] = nm,
                      !.score[elem] = sc,
                      !.elements = (nm :> sc) @@ t.elements]
      d == InsertDescent(t1, elem, elemLevel, t1.maxLevel, headNode, NoPrevs)
  IN InsertSpans(d.t, elem, elemLevel, d.prevs)

\* InsertNew without the cap of the drawn level at maxLevel + 1.
InsertNewUncapped(t, nm, sc, r) ==
  LET drawn == generateLevel(r)
      elemLevel == drawn
      elem == NewElement(t, nm)
      t1 == [t EXCEPT !.maxLevel = IF drawn > t.maxLevel THEN elemLevel ELSE @,
                      !.name[elem] = nm,
                      !.score[elem] = sc,
                      !.elements = (nm :> sc) @@ t.elements]
      d == InsertDescent(t1, elem, elemLevel, t1.maxLevel, headNode, NoPrevs)
  IN InsertSpans(d.t, elem, elemLevel, d.prevs)

\* InsertNew leaving the base-level link of the new node pointing at the node
\* itself.
InsertNewSelfLinked(t, nm, sc, r) ==
  LET drawn == generateLevel(r)
      elemLevel == IF drawn > t.maxLevel THEN t.maxLevel + 1 ELSE drawn
      elem == NewElement(t, nm)
      t1 == [t EXCEPT !.maxLevel = IF drawn > t.maxLevel THEN elemLevel ELSE @,
                      !.name[elem] = nm,
                      !.score[elem] = sc,
                      !.elements = (nm :> sc) @@ t.elements]
      d == InsertDescent(t1, elem, elemLevel, t1.maxLevel, headNode, NoPrevs)
      t2 == InsertSpans(d.t, elem, elemLevel, d.prevs)
  IN [t2 EXCEPT !.next[elem][0] = elem]

\* Insert from the level draw on: the name is not in the list (any more).
InsertNew(t, nm, sc, r) ==
  LET drawn == generateLevel(r)
      elemLevel == IF drawn > t.maxLevel THEN t.maxLevel + 1 ELSE drawn
      elem == NewElement(t, nm)
      t1 == [t EXCEPT !.maxLevel = IF drawn > t.maxLevel THEN elemLevel ELSE @,
                      !.name[elem] = nm,
                      !.score[elem] = sc,
                      !.elements = (nm :> sc) @@ t.elements]
      d == InsertDescent(t1, elem, elemLevel, t1.maxLevel, headNode, NoPrevs)
  IN InsertSpans(d.t, elem, elemLevel, d.prevs)

\* InsertReturnsEarly without the check of the score against the sentinels'.
InsertReturnsEarlyAnyScore(t, nm, sc) ==
  \/ nm = HeadNodeName \/ nm = TailNodeName
  \/ nm \in DOMAIN t.elements /\ equalFloat(t.elements[nm], sc)

\* InsertReturnsEarly comparing the indexed score with == instead of equalFloat.
InsertReturnsEarlyExact(t, nm, sc) ==
  \/ nm = HeadNodeName \/ nm = TailNodeName
  \/ sc = t.score[headNode] \/ sc = t.score[tailNode]
  \/ nm \in DOMAIN t.elements /\ t.elements[nm] = sc

\* The three early returns of Insert, all taken before generateLevel is called.
InsertReturnsEarly(t, nm, sc) ==
  \/ nm = HeadNodeName \/ nm = TailNodeName
  \/ sc = t.score[headNode] \/ sc = t.score[tailNode]
  \/ nm \in DOMAIN t.elements /\ equalFloat(t.elements[nm], sc)

Insert(t, nm, sc, r) ==
  IF InsertReturnsEarly(t, nm, sc) THEN t
  ELSE IF nm \in DOMAIN t.elements
       THEN InsertNew(Delete(t, nm), nm, sc, r)
       ELSE InsertNew(t, nm, sc, r)

\* ----------------------------------------------------------------- queries
\* Find: the Element found, or Nil.
RECURSIVE FindLevels(_, _, _, _, _)
FindLevels(t, nm, sc, i, startNode) ==
  LET currNode == WalkLess(t, i, startNode, sc, nm)
      nextNode == t.next[currNode][i]
  IN IF Equal(t, nextNode, sc, nm) THEN nextNode
     ELSE IF i = 0 THEN Nil
     ELSE FindLevels(t, nm, sc, i - 1, currNode)

Find(t, nm) ==
  IF nm \notin DOMAIN t.elements THEN Nil
  ELSE FindLevels(t, nm, t.elements[nm], t.maxLevel, headNode)

\* The inner loop of GetRank: the node reached on level i and the rank summed.
RECURSIVE WalkRank(_, _, _, _, _, _)
WalkRank(t, i, currNode, elemRank, sc, nm) ==
  LET nextNode == t.next[currNode][i]
  IN IF Less(t, nextNode, sc, nm)
     THEN WalkRank(t, i, nextNode, elemRank + t.span[currNode][i], sc, nm)
     ELSE [node |-> currNode, rank |-> elemRank]

RECURSIVE GetRankLevels(_, _, _, _, _, _)
GetRankLevels(t, nm, sc, i, startNode, startRank) ==
  LET w == WalkRank(t, i, startNode, startRank, sc, nm)
      nextNode == t.next[w.node][i]
  IN IF Equal(t, nextNode, sc, nm)
     THEN [rank |-> w.rank + t.span[w.node][i], exist |-> TRUE]
     ELSE IF i = 0 THEN [rank |-> 0, exist |-> FALSE]
     ELSE GetRankLevels(t, nm, sc, i - 1, w.node, w.rank)

GetRank(t, nm) ==
  IF nm \notin DOMAIN t.elements THEN [rank |-> 0, exist |-> FALSE]
  ELSE GetRankLevels(t, nm, t.elements[nm], t.maxLevel, headNode, 0)

GetNodeCount(t) == Cardinality(DOMAIN t.elements)

\* WalkSpan advancing only while the next rank is below the target.
RECURSIVE WalkSpanStrict(_, _, _, _, _)
WalkSpanStrict(t, i, currNode, elemRank, rank) ==
  IF t.next[currNode][i] /= tailNode /\ elemRank + t.span[currNode][i] < rank
  THEN WalkSpanStrict(t, i, t.next[currNode][i], elemRank + t.span[currNode][i], rank)
  ELSE [node |-> currNode, rank |-> elemRank]

\* The inner loop of FindByRank on level i.
RECURSIVE WalkSpan(_, _, _, _, _)
WalkSpan(t, i, currNode, elemRank, rank) ==
  IF t.next[currNode][i] /= tailNode /\ elemRank + t.span[currNode][i] <= rank
  THEN WalkSpan(t, i, t.next[currNode][i], elemRank + t.span[currNode][i], rank)
  ELSE [node |-> currNode, rank |-> elemRank]

RECURSIVE FindByRankLevels(_, _, _, _, _)
FindByRankLevels(t, rank, i, startNode, startRank) ==
  LET w == WalkSpan(t, i, startNode, startRank, rank)
  IN IF w.rank = rank THEN w.node
     ELSE IF i = 0 THEN Nil
     ELSE FindByRankLevels(t, rank, i - 1, w.node, w.rank)

\* FindByRank without the check of the rank against 1 and the count.
FindByRankAnyRank(t, rank) == FindByRankLevels(t, rank, t.maxLevel, headNode, 0)

FindByRank(t, rank) ==
  IF rank < 1 \/ rank > GetNodeCount(t) THEN Nil
  ELSE FindByRankLevels(t, rank, t.maxLevel, headNode, 0)

IsEmpty(t) == t.next[headNode][0] = tailNode

GetSmallestNode(t) == IF ~IsEmpty(t) THEN t.next[headNode][0] ELSE Nil

GetLargestNode(t) == IF ~IsEmpty(t) THEN t.prev[tailNode] ELSE Nil

GetScore(t, nm) ==
  IF nm \in DOMAIN t.elements THEN [score |-> t.elements[nm], ok |-> TRUE]
  ELSE [score |-> 0, ok |-> FALSE]

\* Element.Next without the check for the tail.
Next0Raw(t, e) == t.next[e][0]

\* Element.Next and Element.Prev.
Next0(t, e) ==
  IF t.next[e][0] /= Nil /\ t.name[t.next[e][0]] = TailNodeName THEN Nil
  ELSE t.next[e][0]

Prev0(t, e) ==
  IF t.prev[e] /= Nil /\ t.name[t.prev[e]] = HeadNodeName THEN Nil ELSE t.prev[e]

\* The inner loop of FindGreaterOrEqual: walk while the next score is lessThan.
RECURSIVE WalkScore(_, _, _, _)
WalkScore(t, i, currNode, sc) ==
  LET nextNode == t.next[currNode][i]
  IN IF lessThan(t.score[nextNode], sc) THEN WalkScore(t, i, nextNode, sc)
     ELSE currNode

\* The base-level scan of FindGreaterOrEqual from curr up to the tail.
RECURSIVE ScanScore(_, _, _)
ScanScore(t, curr, sc) ==
  IF curr = tailNode THEN Nil
  ELSE IF ~lessThan(t.score[curr], sc) THEN curr
  ELSE ScanScore(t, t.next[curr][0], sc)

RECURSIVE FindGELevels(_, _, _, _)
FindGELevels(t, sc, i, startNode) ==
  LET currNode == WalkScore(t, i, startNode, sc)
  IN IF i = 0 THEN ScanScore(t, currNode, sc)
     ELSE FindGELevels(t, sc, i - 1, currNode)

FindGreaterOrEqual(t, sc) ==
  IF IsEmpty(t) THEN Nil
  ELSE IF ~greaterThan(sc, t.score[t.next[headNode][0]]) THEN t.next[headNode][0]
  ELSE IF greaterThan(sc, t.score[t.prev[tailNode]]) THEN Nil
  ELSE FindGELevels(t, sc, t.maxLevel, headNode)

\* ------------------------------------------- the start/end-pointer variant
\* The earlier SkipList of skiplist.go, lines 522-1010: no sentinels and no
\* spans; startLevels and endLevels point at the first and last node of each
\* level, nil (Nil) where a level is empty.  The variable legacy holds such a
\* list with the heap of its SkipListElements, and panic tells whether a call
\* dereferenced nil.
LegacyNodes == 1 .. MaxNodes

LegacyZeroElement ==
  [next |-> [i \in Levels |-> Nil], prev |-> Nil, name |-> 0, score |-> 0, level |-> 0]

LegacyNewSeed ==
  [startLevels |-> [i \in Levels |-> Nil],
   endLevels |-> [i \in Levels |-> Nil],
   maxLevel |-> 0,
   elements |-> << >>,
   next |-> [n \in LegacyNodes |-> LegacyZeroElement.next],
   prev |-> [n \in LegacyNodes |-> LegacyZeroElement.prev],
   name |-> [n \in LegacyNodes |-> LegacyZeroElement.name],
   score |-> [n \in LegacyNodes |-> LegacyZeroElement.score],
   level |-> [n \in LegacyNodes |-> LegacyZeroElement.level],
   panic |-> FALSE]

less(t, e, sc, nm) ==
  IF Abs(t.score[e] - sc) > Eps THEN t.score[e] < sc ELSE t.name[e] < nm

equal(t, e, sc, nm) == Abs(t.score[e] - sc) <= Eps /\ t.name[e] = nm

greater(t, e, sc, nm) ==
  IF Abs(t.score[e] - sc) > Eps THEN t.score[e] > sc ELSE t.name[e] > nm

RECURSIVE LegacyReachFrom(_, _)
LegacyReachFrom(t, found) ==
  LET more == {m \in LegacyNodes :
                 \E n \in found : m = t.prev[n] \/ \E i \in Levels : m = t.next[n][i]}
  IN IF more \subseteq found THEN found ELSE LegacyReachFrom(t, found \cup more)

\* SkipListElements the list still refers to.
LegacyLive(t) ==
  LegacyReachFrom(t, {n \in LegacyNodes :
                        \E i \in Levels : n = t.startLevels[i] \/ n = t.endLevels[i]})

\* Unreferenced SkipListElements are garbage: their slots return to zero values.
LegacyCollect(t) ==
  LET live == LegacyLive(t)
  IN [t EXCEPT
        !.next = [n \in LegacyNodes |-> IF n \in live THEN t.next[n] ELSE LegacyZeroElement.next],
        !.prev = [n \in LegacyNodes |-> IF n \in live THEN t.prev[n] ELSE LegacyZeroElement.prev],
        !.name = [n \in LegacyNodes |-> IF n \in live THEN t.name[n] ELSE LegacyZeroElement.name],
        !.score = [n \in LegacyNodes |-> IF n \in live THEN t.score[n] ELSE LegacyZeroElement.score],
        !.level = [n \in LegacyNodes |-> IF n \in live THEN t.level[n] ELSE LegacyZeroElement.level]]

LegacyFreeNodes(t) == LegacyNodes \ LegacyLive(t)

\* &SkipListElement{...}: the slot of the name when it is free, the lowest free
\* slot otherwise.
LegacyNewElement(t, nm) ==
  IF nm \in LegacyFreeNodes(t) THEN nm
  ELSE CHOOSE n \in LegacyFreeNodes(t) : \A m \in LegacyFreeNodes(t) : n <= m

LegacyIsEmpty(t) == t.startLevels[0] = Nil

findStartLevelFrom(t, sc, nm, level, i) ==
  LET hits == {j \in 0 .. i :
                 \/ j <= level
                 \/ t.startLevels[j] /= Nil /\ ~greater(t, t.startLevels[j], sc, nm)}
  IN IF hits = {} THEN 0 ELSE CHOOSE j \in hits : \A m \in hits : m <= j

findStartLevel(t, sc, nm, level) == findStartLevelFrom(t, sc, nm, level, t.maxLevel)

\* "if currNode == nil { nextNode = t.startLevels[index] } else { ... }".
LegacyNextNode(t, currNode, index) ==
  IF currNode = Nil THEN t.startLevels[index] ELSE t.next[currNode][index]

\* The loop of the legacy Delete from level index and node currNode on.
RECURSIVE LegacyDeleteLoop(_, _, _, _, _)
LegacyDeleteLoop(t, nm, sc, index, currNode) ==
  LET nextNode == LegacyNextNode(t, currNode, index)
      t1 ==
        IF nextNode /= Nil /\ equal(t, nextNode, sc, nm) THEN
          LET delNode == nextNode
              after == t.next[delNode][index]
              a == IF currNode /= Nil THEN [t EXCEPT !.next[currNode][index] = after] ELSE t
              b == IF index = 0
                   THEN LET b1 == IF after /= Nil THEN [a EXCEPT !.prev[after] = currNode]
                                  ELSE a
                        IN [b1 EXCEPT !.elements = [k \in (DOMAIN b1.elements) \ {nm}
                                                      |-> b1.elements[k]]]
                   ELSE a
              c == IF b.startLevels[index] = delNode
                   THEN LET c1 == [b EXCEPT !.startLevels[index] = after]
                        IN IF after = Nil THEN [c1 EXCEPT !.maxLevel = index - 1] ELSE c1
                   ELSE b
              d == IF after = Nil THEN [c EXCEPT !.endLevels[index] = currNode] ELSE c
          IN [d EXCEPT !.next[delNode][index] = Nil]
        ELSE t
  IN Only({IF nextNode /= Nil /\ less(u, nextNode, sc, nm)
            THEN LegacyDeleteLoop(u, nm, sc, index, nextNode)
            ELSE IF index - 1 < 0 THEN u
                 ELSE LegacyDeleteLoop(u, nm, sc, index - 1, currNode) : u \in {t1}})

LegacyDelete(t, nm) ==
  IF nm \notin DOMAIN t.elements THEN t
  ELSE LET sc == t.elements[nm]
       IN LegacyCollect(
            LegacyDeleteLoop(t, nm, sc, findStartLevel(t, sc, nm, 0), Nil))

\* The loop of the legacy Insert for an element that is neither the smallest
\* nor the largest ("isMid"), from level index and node currNode on.
RECURSIVE LegacyInsertMid(_, _, _, _, _)
LegacyInsertMid(t, elem, elemLevel, index, currNode) ==
  LET nextNode == LegacyNextNode(t, currNode, index)
      t1 ==
        IF index <= elemLevel
           /\ (nextNode = Nil \/ greater(t, nextNode, t.score[elem], t.name[elem]))
        THEN
          LET a == [t EXCEPT !.next[elem][index] = nextNode]
              b == IF currNode /= Nil THEN [a EXCEPT !.next[currNode][index] = elem] ELSE a
          IN IF index = 0
             THEN IF nextNode = Nil
                  THEN [b EXCEPT !.prev[elem] = currNode, !.panic = TRUE]
                  ELSE [b EXCEPT !.prev[elem] = currNode, !.prev[nextNode] = elem]
             ELSE b
        ELSE t
  IN Only({IF u.panic THEN u
            ELSE IF nextNode /= Nil /\ less(u, nextNode, u.score[elem], u.name[elem])
            THEN LegacyInsertMid(u, elem, elemLevel, index, nextNode)
            ELSE IF index - 1 < 0 THEN u
                 ELSE LegacyInsertMid(u, elem, elemLevel, index - 1, currNode) : u \in {t1}})

\* The closing loop of the legacy Insert over the levels i..0 of the element:
\* the heads and ends of the levels.
RECURSIVE LegacyInsertEnds(_, _, _, _, _, _)
LegacyInsertEnds(t, elem, i, isMin, isMax, isMid) ==
  LET sc == t.score[elem]
      nm == t.name[elem]
      t1 ==
        IF isMin \/ isMid THEN
          LET a == IF t.startLevels[i] = Nil \/ greater(t, t.startLevels[i], sc, nm)
                   THEN LET a1 == IF i = 0 /\ t.startLevels[i] /= Nil
                                  THEN [t EXCEPT !.prev[t.startLevels[i]] = elem]
                                  ELSE t
                        IN [a1 EXCEPT !.next[elem][i] = t.startLevels[i],
                                      !.startLevels[i] = elem]
                   ELSE t
          IN IF a.next[elem][i] = Nil THEN [a EXCEPT !.endLevels[i] = elem] ELSE a
        ELSE t
      t2 ==
        IF isMax THEN
          LET a == IF ~isMin
                   THEN LET a1 == IF t1.endLevels[i] /= Nil
                                  THEN [t1 EXCEPT !.next[t1.endLevels[i]][i] = elem]
                                  ELSE t1
                            a2 == IF i = 0 THEN [a1 EXCEPT !.prev[elem] = t1.endLevels[i]]
                                  ELSE a1
                        IN [a2 EXCEPT !.endLevels[i] = elem]
                   ELSE t1
          IN IF a.startLevels[i] = Nil \/ greater(a, a.startLevels[i], sc, nm)
             THEN [a EXCEPT !.startLevels[i] = elem]
             ELSE a
        ELSE t1
  IN Only({IF i = 0 THEN u ELSE LegacyInsertEnds(u, elem, i - 1, isMin, isMax, isMid)
             : u \in {t2}})

\* The legacy Insert after its "t.Delete(name)", on the list t0 that leaves.
LegacyInsertNew(t0, nm, sc, r) ==
  LET drawn == generateLevel(r)
      elemLevel == IF drawn > t0.maxLevel THEN t0.maxLevel + 1 ELSE drawn
      elem == LegacyNewElement(t0, nm)
      t1 == [t0 EXCEPT !.maxLevel = IF drawn > t0.maxLevel THEN elemLevel ELSE @,
                       !.elements = (nm :> sc) @@ t0.elements,
                       !.next[elem] = LegacyZeroElement.next,
                       !.prev[elem] = Nil,
                       !.name[elem] = nm,
                       !.score[elem] = sc,
                       !.level[elem] = elemLevel]
      empty == LegacyIsEmpty(t1)
      isMin == empty \/ less(t1, elem, t1.score[t1.startLevels[0]], t1.name[t1.startLevels[0]])
      isMax == empty \/ greater(t1, elem, t1.score[t1.endLevels[0]], t1.name[t1.endLevels[0]])
      isMid == ~isMin /\ ~isMax
      t2 == IF isMid
            THEN LegacyInsertMid(t1, elem, elemLevel,
                                 findStartLevel(t1, sc, nm, elemLevel), Nil)
            ELSE t1
  IN Only({IF u.panic THEN u
            ELSE LegacyInsertEnds(u, elem, elemLevel, isMin, isMax, isMid) : u \in {t2}})

LegacyInsert(t, nm, sc, r) ==
  Only({LegacyInsertNew(t0, nm, sc, r) : t0 \in {LegacyDelete(t, nm)}})

\* The loop of the legacy Find from level index and node currNode on.
RECURSIVE LegacyFindLoop(_, _, _, _, _)
LegacyFindLoop(t, nm, sc, index, currNode) ==
  LET nextNode == LegacyNextNode(t, currNode, index)
  IN IF nextNode /= Nil /\ equal(t, nextNode, sc, nm) THEN nextNode
     ELSE IF nextNode /= Nil /\ less(t, nextNode, sc, nm)
     THEN LegacyFindLoop(t, nm, sc, index, nextNode)
     ELSE IF index - 1 < 0 THEN Nil
          ELSE LegacyFindLoop(t, nm, sc, index - 1, currNode)

LegacyFind(t, nm) ==
  IF nm \notin DOMAIN t.elements THEN Nil
  ELSE LET sc == t.elements[nm]
       IN LegacyFindLoop(t, nm, sc, findStartLevel(t, sc, nm, 0), Nil)

LegacyGetNodeCount(t) == Cardinality(DOMAIN t.elements)

\* The base-level scan of the legacy FindGreaterOrEqual from node on.
RECURSIVE LegacyScan(_, _, _)
LegacyScan(t, node, sc) ==
  IF node = Nil THEN Nil
  ELSE IF equalFloat(t.score[node], sc) \/ greaterThan(t.score[node], sc) THEN node
  ELSE LegacyScan(t, t.next[node][0], sc)

\* The loop of the legacy FindGreaterOrEqual from level index and currNode on.
RECURSIVE LegacyFindGELoop(_, _, _, _)
LegacyFindGELoop(t, sc, index, currNode) ==
  LET nextNode == LegacyNextNode(t, currNode, index)
  IN IF index = 0 THEN LegacyScan(t, currNode, sc)
     ELSE IF nextNode /= Nil /\ lessThan(t.score[nextNode], sc)
     THEN LegacyFindGELoop(t, sc, index, nextNode)
     ELSE LegacyFindGELoop(t, sc, index - 1, currNode)

\* "for i := t.maxLevel; i >= 0; i--": the highest level whose first node has a
\* score lessThan the one asked for, 0 when there is none.
LegacyFindGEIndex(t, sc) ==
  LET hits == {i \in 0 .. t.maxLevel : lessThan(t.score[t.startLevels[i]], sc)}
  IN IF hits = {} THEN 0 ELSE CHOOSE i \in hits : \A m \in hits : m <= i

LegacyFindGreaterOrEqual(t, sc) ==
  IF LegacyIsEmpty(t) THEN Nil
  ELSE IF \/ lessThan(sc, t.score[t.startLevels[0]])
          \/ equalFloat(sc, t.score[t.startLevels[0]])
       THEN t.startLevels[0]
  ELSE IF greaterThan(sc, t.score[t.endLevels[0]]) THEN Nil
  ELSE LegacyFindGELoop(t, sc, LegacyFindGEIndex(t, sc), Nil)

\* ------------------------------------------------------------- goroutines
\* The goroutines that share one SkipList.
Callers == {1, 2}

\* A goroutine outside any call, and the local variables of Insert in one that
\* is inside: pc is "loop" in the descent loop, "spans" before the span
\* loops, "panic" after a nil dereference.
Idle ==
  [pc |-> "idle", elem |-> Nil, elemLevel |-> 0, index |-> 0, currNode |-> Nil,
   prevs |-> NoPrevs]

\* The Elements the local variables of the goroutines point at.
Held(cs) ==
  UNION {{cs[c].elem, cs[c].currNode} \cup {cs[c].prevs[i].node : i \in Levels}
           : c \in Callers} \ {Nil}

\* Collect when goroutines are inside calls: what their local variables reach
\* is not garbage.
CollectHeld(t, held) ==
  LET live == ReachFrom(t, {headNode, tailNode} \cup held)
  IN [t EXCEPT
        !.next = [n \in Nodes |-> IF n \in live THEN t.next[n] ELSE ZeroElement.next],
        !.span = [n \in Nodes |-> IF n \in live THEN t.span[n] ELSE ZeroElement.span],
        !.prev = [n \in Nodes |-> IF n \in live THEN t.prev[n] ELSE ZeroElement.prev],
        !.name = [n \in Nodes |-> IF n \in live THEN t.name[n] ELSE ZeroElement.name],
        !.score = [n \in Nodes |-> IF n \in live THEN t.score[n] ELSE ZeroElement.score]]

FreeNodesHeld(t, held) == RealNodes \ ReachFrom(t, {headNode, tailNode} \cup held)

NewElementHeld(t, nm, held) ==
  IF nm + 2 \in FreeNodesHeld(t, held) THEN nm + 2
  ELSE CHOOSE n \in FreeNodesHeld(t, held) : \A m \in FreeNodesHeld(t, held) : n <= m

\* Delete dereferences nil: its walk from level i at currNode comes to a next
\* pointer that is nil, which nextNode.Less reads.
RECURSIVE DeleteMeetsNil(_, _, _, _, _)
DeleteMeetsNil(t, nm, sc, i, currNode) ==
  LET nextNode == t.next[currNode][i]
  IN IF nextNode = Nil THEN TRUE
     ELSE IF Less(t, nextNode, sc, nm) THEN DeleteMeetsNil(t, nm, sc, i, nextNode)
     ELSE IF Equal(t, nextNode, sc, nm) /\ i = 0 /\ t.next[nextNode][0] = Nil THEN TRUE
     ELSE IF i = 0 THEN FALSE
     ELSE DeleteMeetsNil(t, nm, sc, i - 1, currNode)

DeletePanics(t, nm) ==
  /\ nm \in DOMAIN t.elements
  /\ DeleteMeetsNil(t, nm, t.elements[nm], t.maxLevel, headNode)

\* Insert up to its loop: the early returns, the Delete of a key that changes
\* its score, the level, the new Element, the index and the local variables.
\* Gives the list and the goroutine after it.
InsertBegin(t, held, nm, sc, r) ==
  IF InsertReturnsEarly(t, nm, sc) THEN [list |-> t, caller |-> Idle]
  ELSE IF DeletePanics(t, nm) THEN [list |-> t, caller |-> [Idle EXCEPT !.pc = "panic"]]
  ELSE
    LET t0 == IF nm \in DOMAIN t.elements THEN CollectHeld(DeleteLinks(t, nm), held)
              ELSE t
        drawn == generateLevel(r)
        elemLevel == IF drawn > t0.maxLevel THEN t0.maxLevel + 1 ELSE drawn
        elem == NewElementHeld(t0, nm, held)
        t1 == [t0 EXCEPT !.maxLevel = IF drawn > t0.maxLevel THEN elemLevel ELSE @,
                         !.name[elem] = nm,
                         !.score[elem] = sc,
                         !.elements = (nm :> sc) @@ t0.elements]
    IN [list |-> t1,
        caller |-> [pc |-> "loop", elem |-> elem, elemLevel |-> elemLevel,
                    index |-> t1.maxLevel, currNode |-> headNode, prevs |-> NoPrevs]]

\* One iteration of the loop of Insert by a goroutine with local variables c.
InsertIterate(t, c) ==
  LET nextNode == t.next[c.currNode][c.index]
  IN IF nextNode = Nil THEN [list |-> t, caller |-> [c EXCEPT !.pc = "panic"]]
     ELSE
       LET isLess == Less(t, nextNode, t.score[c.elem], t.name[c.elem])
           prevs1 == IF ~isLess THEN [c.prevs EXCEPT ![c.index].node = c.currNode]
                     ELSE c.prevs
           t1 ==
             IF ~isLess /\ c.index <= c.elemLevel THEN
               LET a == [t EXCEPT !.next[c.elem][c.index] = nextNode,
                                  !.next[c.currNode][c.index] = c.elem]
               IN IF c.index = 0
                  THEN [a EXCEPT !.prev[c.elem] = c.currNode, !.prev[nextNode] = c.elem]
                  ELSE a
             ELSE t
       IN [list |-> t1,
           caller |->
             IF isLess
             THEN [c EXCEPT !.currNode = nextNode,
                            !.prevs = [prevs1 EXCEPT ![c.index].rank =
                                         @ + t1.span[c.currNode][c.index]]]
             ELSE IF c.index - 1 < 0
                  THEN [c EXCEPT !.pc = "spans", !.prevs = prevs1]
                  ELSE [c EXCEPT !.index = c.index - 1,
                                 !.prevs = [prevs1 EXCEPT ![c.index - 1].rank =
                                              prevs1[c.index].rank]]]

\* The span loops of Insert by a goroutine with local variables c: they run
\* over the levels up to the maxLevel of that moment, and dereference nil
\* where the descent recorded no predecessor.
InsertFinish(t, c) ==
  IF \E i \in Levels : i <= t.maxLevel /\ c.prevs[i].node = Nil
  THEN [list |-> t, caller |-> [c EXCEPT !.pc = "panic"]]
  ELSE [list |-> InsertSpans(t, c.elem, c.elemLevel, c.prevs), caller |-> Idle]

\* ----------------------------------------------------------------- actions
\* No value has been handed to generateLevel yet.
NoDraw == -1

\* The source of math/rand before any rand.Seed of the program: New() seeds
\* from the clock, so the values drawn are any values.
Unseeded == [seed |-> 0, drawn |-> 0]

\* rand.Seed(seed): the source restarts the stream of that seed.
Seeds == 1 .. MaxSeed

Seed(seed) == [seed |-> seed, drawn |-> 0]

\* The generator of math/rand is outside the repository; what the list relies
\* on is that the n-th value drawn after rand.Seed(seed) is a fixed function of
\* seed and n.  Stream is one such function.
Stream(seed, n) == ((seed + n) * (seed + n + 1)) \div 2 + seed

\* rand.Uint64(): the next value of the source, and the source after it.
Uint64(src) ==
  [value |-> Stream(src.seed, src.drawn), source |-> [src EXCEPT !.drawn = @ + 1]]

Set(t) ==
  /\ next' = t.next
  /\ span' = t.span
  /\ prev' = t.prev
  /\ name' = t.name
  /\ score' = t.score
  /\ maxLevel' = t.maxLevel
  /\ elements' = t.elements

Init ==
  /\ next = NewSeed.next
  /\ span = NewSeed.span
  /\ prev = NewSeed.prev
  /\ name = NewSeed.name
  /\ score = NewSeed.score
  /\ maxLevel = NewSeed.maxLevel
  /\ elements = NewSeed.elements
  /\ calls = 0
  /\ call = [op |-> "New", name |-> 0, score |-> 0, drew |-> FALSE]
  /\ seen = {}
  /\ inserted = {}
  /\ legacy = LegacyNewSeed
  /\ twin = NewSeed
  /\ source = Unseeded
  /\ twinSource = Unseeded
  /\ draw = NoDraw
  /\ levelDrawn = NoDraw
  /\ callers = [c \in Callers |-> Idle]
  /\ serial = TRUE

\* Insert reads a draw only through generateLevel: one draw per level drawn.
DrawReps == {r \in Draws : \A q \in Draws : generateLevel(q) = generateLevel(r) => r <= q}

\* The calls explored keep every span at or above -MaxDrift.
SpanBounded(t) == \A n \in Nodes, i \in Levels : t.span[n][i] >= -MaxDrift

\* A call Insert(nm, sc); drew tells whether it called generateLevel.
InsertCall(nm, sc, drew) ==
  /\ FreeNodes(This) /= {}
  /\ IF InsertReturnsEarly(This, nm, sc)
     THEN ~drew /\ UNCHANGED list
     ELSE /\ drew
          /\ \E r \in DrawReps :
               LET t == Insert(This, nm, sc, r)
               IN SpanBounded(t) /\ Set(t)

\* A call Delete(nm).
DeleteCall(nm) ==
  LET t == Delete(This, nm)
  IN SpanBounded(t) /\ Set(t)

\* Spec: MaxCalls calls with any finite scores, and a record of the calls made.
InsertAny ==
  /\ calls < MaxCalls
  /\ \E nm \in Names, sc \in Scores \cup {NegInf, PosInf}, drew \in BOOLEAN :
       /\ InsertCall(nm, sc, drew)
       /\ call' = [op |-> "Insert", name |-> nm, score |-> sc, drew |-> drew]
       /\ seen' = IF sc \in Scores THEN seen \cup {sc} ELSE seen
       /\ inserted' = IF nm \in Keys /\ sc \in Scores THEN inserted \cup {nm}
                      ELSE inserted
  /\ calls' = calls + 1
  /\ UNCHANGED <<legacy, aside>>

DeleteAny ==
  /\ calls < MaxCalls
  /\ \E nm \in Names :
       /\ DeleteCall(nm)
       /\ call' = [op |-> "Delete", name |-> nm, score |-> 0, drew |-> FALSE]
       /\ inserted' = inserted \ {nm}
  /\ calls' = calls + 1
  /\ UNCHANGED <<seen, legacy, aside>>

\* SpecSep: any number of calls, with scores equal or more than Eps apart; the
\* record of calls is not kept.
InsertSep ==
  /\ \E nm \in Names, sc \in SepScores \cup {NegInf, PosInf}, drew \in BOOLEAN :
       InsertCall(nm, sc, drew)
  /\ UNCHANGED <<record, legacy, aside>>

DeleteSep == (\E nm \in Names : DeleteCall(nm)) /\ UNCHANGED <<record, legacy, aside>>

\* SpecFlat: any number of calls with any finite scores, where every value of
\* rand.Uint64() is odd, so that generateLevel returns 0 and the list stays on
\* the base level; the record of calls is not kept.
FlatDraws == {r \in DrawReps : generateLevel(r) = 0}

InsertFlat ==
  /\ FreeNodes(This) /= {}
  /\ \E nm \in Keys, sc \in Scores, r \in FlatDraws :
       LET t == Insert(This, nm, sc, r)
       IN SpanBounded(t) /\ Set(t)
  /\ UNCHANGED <<record, legacy, aside>>

DeleteFlat == (\E nm \in Keys : DeleteCall(nm)) /\ UNCHANGED <<record, legacy, aside>>

\* SpecLegacy: any number of calls of the start/end-pointer variant, with
\* scores equal or more than Eps apart.
LegacyInsertCall ==
  /\ ~legacy.panic
  /\ LegacyFreeNodes(legacy) /= {}
  /\ \E nm \in Keys, sc \in SepScores, r \in DrawReps :
       legacy' = LegacyInsert(legacy, nm, sc, r)
  /\ UNCHANGED <<list, record, aside>>

LegacyDeleteCall ==
  /\ ~legacy.panic
  /\ \E nm \in Keys : legacy' = LegacyDelete(legacy, nm)
  /\ UNCHANGED <<list, record, aside>>

\* SpecLevel: calls of generateLevel alone, for every value of the low
\* DrawBits bits of rand.Uint64().
DrawBits == MaxLevel + 4

RawDraws == 0 .. (2 ^ DrawBits - 1)

GenerateLevelCall ==
  /\ \E r \in RawDraws :
       /\ draw' = r
       /\ levelDrawn' = generateLevel(r)
  /\ UNCHANGED <<list, record, legacy, twin, source, twinSource, callers, serial>>

\* SpecTwin: two runs of one program on the same calls, MaxCalls of them with
\* any finite scores.  The run of list draws any levels, the run of twin draws
\* level 0 every time.
InsertTwin ==
  /\ calls < MaxCalls
  /\ FreeNodes(This) /= {}
  /\ FreeNodes(twin) /= {}
  /\ \E nm \in Keys, sc \in Scores, r \in DrawReps, r0 \in FlatDraws :
       LET t == Insert(This, nm, sc, r)
           t0 == Insert(twin, nm, sc, r0)
       IN /\ SpanBounded(t) /\ SpanBounded(t0)
          /\ Set(t)
          /\ twin' = t0
          /\ call' = [op |-> "Insert", name |-> nm, score |-> sc,
                      drew |-> ~InsertReturnsEarly(This, nm, sc)]
          /\ seen' = seen \cup {sc}
          /\ inserted' = inserted \cup {nm}
  /\ calls' = calls + 1
  /\ UNCHANGED <<legacy, source, twinSource, draw, levelDrawn, callers, serial>>

DeleteTwin ==
  /\ calls < MaxCalls
  /\ \E nm \in Keys :
       LET t == Delete(This, nm)
           t0 == Delete(twin, nm)
       IN /\ SpanBounded(t) /\ SpanBounded(t0)
          /\ Set(t)
          /\ twin' = t0
          /\ call' = [op |-> "Delete", name |-> nm, score |-> 0, drew |-> FALSE]
          /\ inserted' = inserted \ {nm}
  /\ calls' = calls + 1
  /\ UNCHANGED <<seen, legacy, source, twinSource, draw, levelDrawn, callers, serial>>

NextTwin == InsertTwin \/ DeleteTwin

\* SpecSeed: the list is made by NewSeed(seed) in a program that also makes and
\* uses other SkipLists; twin is made by NewSeed(seed) and given the same calls
\* in a program that does nothing else.  Every level is drawn from the source
\* of the program, scores are equal or more than Eps apart, and calls counts
\* the calls and the values drawn.
InitSeed ==
  /\ next = NewSeed.next
  /\ span = NewSeed.span
  /\ prev = NewSeed.prev
  /\ name = NewSeed.name
  /\ score = NewSeed.score
  /\ maxLevel = NewSeed.maxLevel
  /\ elements = NewSeed.elements
  /\ calls = 0
  /\ call = [op |-> "New", name |-> 0, score |-> 0, drew |-> FALSE]
  /\ seen = {}
  /\ inserted = {}
  /\ legacy = LegacyNewSeed
  /\ twin = NewSeed
  /\ \E seed \in Seeds : source = Seed(seed) /\ twinSource = Seed(seed)
  /\ draw = NoDraw
  /\ levelDrawn = NoDraw
  /\ callers = [c \in Callers |-> Idle]
  /\ serial = TRUE

\* Insert(nm, sc) on list t of a program whose source is src: the list and the
\* source it leaves.
InsertFrom(t, src, nm, sc) ==
  IF InsertReturnsEarly(t, nm, sc) THEN [list |-> t, source |-> src]
  ELSE [list |-> Insert(t, nm, sc, Uint64(src).value), source |-> Uint64(src).source]

InsertSeeded ==
  /\ calls < MaxCalls
  /\ FreeNodes(This) /= {}
  /\ FreeNodes(twin) /= {}
  /\ \E nm \in Keys, sc \in SepScores :
       LET a == InsertFrom(This, source, nm, sc)
           b == InsertFrom(twin, twinSource, nm, sc)
       IN /\ SpanBounded(a.list) /\ SpanBounded(b.list)
          /\ Set(a.list)
          /\ source' = a.source
          /\ twin' = b.list
          /\ twinSource' = b.source
          /\ call' = [op |-> "Insert", name |-> nm, score |-> sc,
                      drew |-> ~InsertReturnsEarly(This, nm, sc)]
  /\ calls' = calls + 1
  /\ UNCHANGED <<seen, inserted, legacy, draw, levelDrawn, callers, serial>>

DeleteSeeded ==
  /\ calls < MaxCalls
  /\ \E nm \in Keys :
       LET t == Delete(This, nm)
           t0 == Delete(twin, nm)
       IN /\ SpanBounded(t) /\ SpanBounded(t0)
          /\ Set(t)
          /\ twin' = t0
          /\ call' = [op |-> "Delete", name |-> nm, score |-> 0, drew |-> FALSE]
  /\ calls' = calls + 1
  /\ UNCHANGED <<seen, inserted, legacy, source, twinSource, draw, levelDrawn, callers, serial>>

\* Between two calls the program of list makes another SkipList by
\* NewSeed(seed): rand.Seed restarts the package-global source.
OtherNewSeed ==
  /\ calls < MaxCalls
  /\ \E seed \in Seeds : source' = Seed(seed)
  /\ call' = [op |-> "NewSeed", name |-> 0, score |-> 0, drew |-> FALSE]
  /\ calls' = calls + 1
  /\ UNCHANGED <<list, seen, inserted, legacy, twin, twinSource, draw, levelDrawn, callers, serial>>

\* Between two calls the program of list inserts a new key into another
\* SkipList: generateLevel takes one value from the package-global source.
OtherInsert ==
  /\ calls < MaxCalls
  /\ source' = Uint64(source).source
  /\ call' = [op |-> "Insert", name |-> 0, score |-> 0, drew |-> TRUE]
  /\ calls' = calls + 1
  /\ UNCHANGED <<list, seen, inserted, legacy, twin, twinSource, draw, levelDrawn, callers, serial>>

NextSeed == InsertSeeded \/ DeleteSeeded \/ OtherNewSeed \/ OtherInsert

\* SpecBoth: the span variant and the start/end-pointer variant side by side
\* on the same calls, any number of them, with scores equal or more than Eps
\* apart.  The start/end-pointer variant draws any levels; the span variant
\* draws level 0 every time.
InsertBoth ==
  /\ ~legacy.panic
  /\ FreeNodes(This) /= {}
  /\ LegacyFreeNodes(legacy) /= {}
  /\ \E nm \in Keys, sc \in SepScores, r \in FlatDraws, r2 \in DrawReps :
       LET t == Insert(This, nm, sc, r)
       IN /\ SpanBounded(t)
          /\ Set(t)
          /\ legacy' = LegacyInsert(legacy, nm, sc, r2)
  /\ UNCHANGED <<record, aside>>

DeleteBoth ==
  /\ ~legacy.panic
  /\ \E nm \in Keys :
       LET t == Delete(This, nm)
       IN /\ SpanBounded(t)
          /\ Set(t)
          /\ legacy' = LegacyDelete(legacy, nm)
  /\ UNCHANGED <<record, aside>>

NextBoth == InsertBoth \/ DeleteBoth

\* SpecCallers: two goroutines call Insert and Delete of one list, MaxCalls - 1
\* calls in all, with scores equal or more than Eps apart.  A step of a
\* goroutine is Insert up to its loop, one iteration of the loop, the span
\* loops, or a whole Delete.  When serial, a goroutine enters a call only
\* while no other is inside one: the callers take one lock around every call.
InitCallers ==
  /\ next = NewSeed.next
  /\ span = NewSeed.span
  /\ prev = NewSeed.prev
  /\ name = NewSeed.name
  /\ score = NewSeed.score
  /\ maxLevel = NewSeed.maxLevel
  /\ elements = NewSeed.elements
  /\ calls = 0
  /\ call = [op |-> "New", name |-> 0, score |-> 0, drew |-> FALSE]
  /\ seen = {}
  /\ inserted = {}
  /\ legacy = LegacyNewSeed
  /\ twin = NewSeed
  /\ source = Unseeded
  /\ twinSource = Unseeded
  /\ draw = NoDraw
  /\ levelDrawn = NoDraw
  /\ callers = [c \in Callers |-> Idle]
  /\ serial \in BOOLEAN

\* No goroutine has panicked, and under the lock no other goroutine is inside
\* a call.
MayEnter(c) ==
  /\ calls < MaxCalls - 1
  /\ callers[c].pc = "idle"
  /\ \A d \in Callers : callers[d].pc /= "panic"
  /\ serial => \A d \in Callers : callers[d].pc = "idle"

CallerBegins ==
  \E c \in Callers :
    /\ MayEnter(c)
    /\ FreeNodesHeld(This, Held(callers)) /= {}
    /\ \E nm \in Keys, sc \in SepScores, r \in DrawReps :
         \E b \in {InsertBegin(This, Held(callers), nm, sc, r)} :
           /\ Set(b.list)
           /\ callers' = [callers EXCEPT ![c] = b.caller]
    /\ calls' = calls + 1
    /\ UNCHANGED <<call, seen, inserted, legacy, twin, source, twinSource, draw,
                   levelDrawn, serial>>

CallerIterates ==
  \E c \in Callers :
    /\ callers[c].pc = "loop"
    /\ \A d \in Callers : callers[d].pc /= "panic"
    /\ \E b \in {InsertIterate(This, callers[c])} :
         /\ Set(b.list)
         /\ callers' = [callers EXCEPT ![c] = b.caller]
    /\ UNCHANGED <<record, legacy, twin, source, twinSource, draw, levelDrawn, serial>>

CallerFinishes ==
  \E c \in Callers :
    /\ callers[c].pc = "spans"
    /\ \A d \in Callers : callers[d].pc /= "panic"
    /\ \E b \in {InsertFinish(This, callers[c])} :
         \E t \in {CollectHeld(b.list, Held([callers EXCEPT ![c] = b.caller]))} :
           /\ SpanBounded(t)
           /\ Set(t)
           /\ callers' = [callers EXCEPT ![c] = b.caller]
    /\ UNCHANGED <<record, legacy, twin, source, twinSource, draw, levelDrawn, serial>>

CallerDeletes ==
  \E c \in Callers :
    /\ MayEnter(c)
    /\ \E nm \in Keys :
         /\ IF DeletePanics(This, nm)
            THEN /\ callers' = [callers EXCEPT ![c].pc = "panic"]
                 /\ UNCHANGED list
            ELSE /\ \E t \in {CollectHeld(DeleteLinks(This, nm), Held(callers))} :
                      SpanBounded(t) /\ Set(t)
                 /\ UNCHANGED callers
    /\ calls' = calls + 1
    /\ UNCHANGED <<call, seen, inserted, legacy, twin, source, twinSource, draw,
                   levelDrawn, serial>>

NextCallers == CallerBegins \/ CallerIterates \/ CallerFinishes \/ CallerDeletes

Next == InsertAny \/ DeleteAny

NextSep == InsertSep \/ DeleteSep

NextFlat == InsertFlat \/ DeleteFlat

NextLegacy == LegacyInsertCall \/ LegacyDeleteCall

Spec == Init /\ [][Next]_vars

SpecSep == Init /\ [][NextSep]_vars

SpecFlat == Init /\ [][NextFlat]_vars

SpecLegacy == Init /\ [][NextLegacy]_vars

SpecLevel == Init /\ [][GenerateLevelCall]_vars

SpecTwin == Init /\ [][NextTwin]_vars

SpecSeed == InitSeed /\ [][NextSeed]_vars

SpecBoth == Init /\ [][NextBoth]_vars

SpecCallers == InitCallers /\ [][NextCallers]_vars

\* ------------------------------------------------------------------ claims
\* The place of name k among the indexed entries in (score, then name) order.
Ordinal(t, k) ==
  1 + Cardinality({j \in DOMAIN t.elements :
                     \/ t.elements[j] < t.elements[k]
                     \/ t.elements[j] = t.elements[k] /\ j < k})

\* The scores of S are pairwise equal or more than Eps apart.
Separated(S) == \A a \in S, b \in S : a = b \/ Abs(a - b) > Eps

\* A Delete has emptied a level: only then is a head span above maxLevel off
\* the distance to the tail.
SomeLevelWasEmptied ==
  \E i \in Levels : i > maxLevel /\ span[headNode][i] /= GetNodeCount(This) + 1

\* C1: under calls whose scores are pairwise equal or more than Eps apart, for
\* every indexed key k GetRank(k) is (r, true) with r = 1 + the number of indexed
\* entries before (score(k), k) in (score, then name) order.
C1_GetRankIsOrdinal ==
  \A k \in DOMAIN elements :
    GetRank(This, k) = [rank |-> Ordinal(This, k), exist |-> TRUE]

\* C1 witness: three entries, two of them sharing a score, on a list with a
\* level above the base, one real link spanning more than one entry, after a
\* Delete has emptied a level.
C1_Witness ==
  /\ GetNodeCount(This) = 3
  /\ \E j \in DOMAIN elements, k \in DOMAIN elements : j /= k /\ elements[j] = elements[k]
  /\ \E j \in DOMAIN elements, k \in DOMAIN elements : elements[j] /= elements[k]
  /\ maxLevel >= 1
  /\ \E n \in Nodes, i \in Levels : span[n][i] >= 2 /\ next[n][i] \in RealNodes
  /\ SomeLevelWasEmptied
  /\ \E k \in DOMAIN elements : GetRank(This, k).rank = 3

\* C2: under such calls FindByRank and GetRank are mutual inverses: every rank
\* r in 1..GetNodeCount() finds a real node whose name has rank r, and every
\* indexed key k is the name of the node found at its rank.
C2_RankInverse ==
  /\ \A r \in 1 .. GetNodeCount(This) :
       LET e == FindByRank(This, r)
       IN e \in RealNodes /\ GetRank(This, name[e]) = [rank |-> r, exist |-> TRUE]
  /\ \A k \in DOMAIN elements :
       LET e == FindByRank(This, GetRank(This, k).rank)
       IN e \in RealNodes /\ name[e] = k

\* C2 witness: three entries, and the node of rank 2 is reached by FindByRank on
\* a level above the base.
C2_Witness ==
  /\ GetNodeCount(This) = 3
  /\ maxLevel >= 1
  /\ \E i \in 1 .. maxLevel : WalkSpan(This, i, headNode, 0, 2).rank = 2
  /\ FindByRank(This, 2) \in RealNodes
  /\ SomeLevelWasEmptied

\* Entry x comes before entry y in the order of C3: y's score exceeds x's by
\* more than Eps, or the scores are within Eps and x's name is the smaller.
Before(t, x, y) ==
  \/ t.score[y] - t.score[x] > Eps
  \/ Abs(t.score[x] - t.score[y]) <= Eps /\ t.name[x] < t.name[y]

\* Every pair of entries met on the walk from GetSmallestNode() by Next() is in
\* ascending order.
Ascends(t) ==
  LET chain == BaseChain(t)
  IN \A a \in 1 .. Len(chain), b \in 1 .. Len(chain) :
       a < b => Before(t, chain[a], chain[b])

\* C3: after calls with arbitrary finite scores the base-level walk is
\* ascending for every pair of entries x before y: y's score exceeds x's by
\* more than Eps, or the scores are within Eps and x.name < y.name.
C3_AscendsAlways == Ascends(This)

\* The walk is ascending as long as the finite scores passed to Insert so far
\* are pairwise equal or more than Eps apart: the disorder needs two scores
\* closer than Eps.
AscendsWhenSeparated == Separated(seen) => Ascends(This)

\* C4: for every indexed key k, Find(k) is a node named k whose score is the
\* score GetScore(k) reports.
C4_FindRoundTrip ==
  \A k \in DOMAIN elements :
    LET e == Find(This, k)
    IN /\ e /= Nil
       /\ name[e] = k
       /\ GetScore(This, k) = [score |-> score[e], ok |-> TRUE]

\* The (name, score) pairs met on the walk from GetSmallestNode() by Next().
RECURSIVE EntriesOf(_, _)
EntriesOf(t, chain) ==
  IF chain = << >> THEN << >>
  ELSE <<(<<t.name[Head(chain)], t.score[Head(chain)]>>)>> \o EntriesOf(t, Tail(chain))

Entries(t) == EntriesOf(t, BaseChain(t))

\* What a caller sees of a returned node: its name and score, or nothing.
Shown(t, e) == IF e = Nil THEN << >> ELSE <<t.name[e], t.score[e]>>

\* Finite scores asked of FindGreaterOrEqual: every stored score, the values
\* between, and values beyond both ends by up to Eps + 1.
QueryScores == (-(Eps + 1)) .. ((Eps + 1) * MaxScore + Eps + 1)

\* C5: GetNodeCount() is the number of names inserted and not deleted since and
\* the number of real nodes on the base level; Insert of a new name adds one,
\* Insert of a present name adds nothing, Delete of a present name takes one.
C5_CountTracksCalls ==
  /\ GetNodeCount(This) = Cardinality(inserted)
  /\ GetNodeCount(This) = Len(BaseChain(This))
  /\ FreeNodes(This) /= {} =>
       \A k \in Keys, sc \in Scores, r \in DrawReps :
         GetNodeCount(Insert(This, k, sc, r)) =
           GetNodeCount(This) + (IF k \in inserted THEN 0 ELSE 1)
  /\ \A k \in inserted : GetNodeCount(Delete(This, k)) = GetNodeCount(This) - 1

\* The earliest base-level node whose score is not lessThan s, or Nil.
FirstAtLeast(t, s) ==
  LET chain == BaseChain(t)
      at == {j \in 1 .. Len(chain) : ~lessThan(t.score[chain[j]], s)}
  IN IF at = {} THEN Nil ELSE chain[CHOOSE j \in at : \A m \in at : j <= m]

\* C6: for every finite score s, FindGreaterOrEqual(s) is the earliest
\* base-level node whose score is not below s by more than Eps, and nil exactly
\* when there is none.
C6_FindGreaterOrEqual ==
  \A s \in QueryScores : FindGreaterOrEqual(This, s) = FirstAtLeast(This, s)

\* The entries other than those named k, in order.
Without(entries, k) == SelectSeq(entries, LAMBDA e : e[1] /= k)

\* C7: Delete(k) of an indexed key k leaves Find(k) nil and GetScore(k),
\* GetRank(k) not found, keeps the base-level sequence of the other keys, and
\* lowers by one exactly the ranks of the keys that followed k.
C7_DeleteRemovesOne ==
  \A k \in DOMAIN elements :
    LET after == Delete(This, k)
        rk == GetRank(This, k)
    IN /\ Find(after, k) = Nil
       /\ ~GetScore(after, k).ok
       /\ ~GetRank(after, k).exist
       /\ Entries(after) = Without(Entries(This), k)
       /\ \A j \in (DOMAIN elements) \ {k} :
            LET rj == GetRank(This, j)
            IN GetRank(after, j) =
                 [rank |-> IF rj.rank > rk.rank THEN rj.rank - 1 ELSE rj.rank,
                  exist |-> TRUE]

\* The number of indexed entries other than k that Element.Less puts before
\* (sc, k), plus one.
OrdinalLess(t, k, sc) ==
  1 + Cardinality({j \in (DOMAIN t.elements) \ {k} :
                     IF Abs(t.elements[j] - sc) > Eps THEN t.elements[j] < sc
                     ELSE j < k})

\* C8: Insert(k, s2) of a key k indexed with a score s1 more than Eps from s2
\* leaves GetScore(k) = (s2, true), the count unchanged, one base-level node
\* named k, GetRank(k) = 1 + the number of other entries before (s2, k), and no
\* reachable node that carries s1 for k.
C8_InsertRescores ==
  FreeNodes(This) /= {} =>
    \A k \in DOMAIN elements, s2 \in Scores, r \in DrawReps :
      Abs(elements[k] - s2) > Eps =>
        LET after == Insert(This, k, s2, r)
            chain == BaseChain(after)
        IN /\ GetScore(after, k) = [score |-> s2, ok |-> TRUE]
           /\ GetNodeCount(after) = GetNodeCount(This)
           /\ Cardinality({j \in 1 .. Len(chain) : after.name[chain[j]] = k}) = 1
           /\ GetRank(after, k) = [rank |-> OrdinalLess(after, k, s2), exist |-> TRUE]
           /\ \A n \in Live(after) :
                ~(after.name[n] = k /\ after.score[n] = elements[k])

\* C9: a call Insert(k, s) with k indexed at a score within Eps of s draws no
\* level and leaves every field of the list as it was.
C9_NoOpInsert ==
  [][(/\ call'.op = "Insert"
      /\ call'.name \in DOMAIN elements
      /\ equalFloat(elements[call'.name], call'.score))
     => (UNCHANGED list /\ ~call'.drew)]_vars

\* C9 witness: the last call was Insert(k, s) with k indexed at another score
\* within Eps of s, on a list of two entries with a level above the base.
C9_Witness ==
  /\ call.op = "Insert"
  /\ call.name \in DOMAIN elements
  /\ equalFloat(elements[call.name], call.score)
  /\ elements[call.name] /= call.score
  /\ ~call.drew
  /\ GetNodeCount(This) >= 2
  /\ maxLevel >= 1

\* All that the queries of C10 report of a list.
Observed(t) ==
  [entries |-> Entries(t),
   count |-> GetNodeCount(t),
   rank |-> [k \in Keys |-> GetRank(t, k)],
   byRank |-> [r \in 1 .. MaxKeys |-> Shown(t, FindByRank(t, r))],
   atLeast |-> [s \in QueryScores |-> Shown(t, FindGreaterOrEqual(t, s))]]

\* C10: Delete(k) followed by Insert(k, s), for an indexed key k with score s
\* and any level drawn, leaves every observation as it was before the Delete.
C10_DeleteInsertRestores ==
  \A k \in DOMAIN elements, r \in DrawReps :
    Observed(Insert(Delete(This, k), k, elements[k], r)) = Observed(This)

\* C11: whenever the index is empty, GetNodeCount() is 0, IsEmpty() is true,
\* GetSmallestNode, GetLargestNode, Find, FindByRank and FindGreaterOrEqual
\* return nil, GetRank and GetScore report not found, maxLevel is 0 and on
\* every level the head links to the tail.
C11_EmptyIndex ==
  elements = << >> =>
    /\ GetNodeCount(This) = 0
    /\ IsEmpty(This)
    /\ GetSmallestNode(This) = Nil
    /\ GetLargestNode(This) = Nil
    /\ \A k \in Names :
         /\ Find(This, k) = Nil
         /\ ~GetRank(This, k).exist
         /\ ~GetScore(This, k).ok
    /\ \A r \in (-1) .. (MaxKeys + 2) : FindByRank(This, r) = Nil
    /\ \A s \in QueryScores \cup {NegInf, PosInf} : FindGreaterOrEqual(This, s) = Nil
    /\ maxLevel = 0
    /\ \A L \in Levels : next[headNode][L] = tailNode

\* C12: a call Insert with the name of a sentinel, or with the score of one
\* (-Inf or +Inf), draws no level and leaves every field of the list as it
\* was, also when the name is indexed with a finite score.
C12_RejectedInsert ==
  [][(/\ call'.op = "Insert"
      /\ \/ call'.name \in {HeadNodeName, TailNodeName}
         \/ call'.score \in {NegInf, PosInf})
     => (UNCHANGED list /\ ~call'.drew)]_vars

\* C12 witness: the last call was Insert(k, +Inf or -Inf) with k indexed at a
\* finite score, on a list of two entries with a level above the base.
C12_Witness ==
  /\ call.op = "Insert"
  /\ call.score \in {NegInf, PosInf}
  /\ call.name \in DOMAIN elements
  /\ ~call.drew
  /\ GetNodeCount(This) >= 2
  /\ maxLevel >= 1

\* What the queries report of an absent target: nil, (0, false), not found for
\* a name not in the index, and nil for a rank below 1 or above the count.
AbsentQueries ==
  /\ \A k \in Names \ DOMAIN elements :
       /\ Find(This, k) = Nil
       /\ GetRank(This, k) = [rank |-> 0, exist |-> FALSE]
       /\ GetScore(This, k) = [score |-> 0, ok |-> FALSE]
       /\ Delete(This, k) = This
  /\ \A r \in (-1) .. (MaxKeys + 2) :
       (r < 1 \/ r > GetNodeCount(This)) => FindByRank(This, r) = Nil

\* C13: the queries report an absent target as nil or not found, and a call
\* Delete(k) for a name k not in the index leaves every field of the list as
\* it was.
C13_AbsentTargets ==
  /\ []AbsentQueries
  /\ [][(call'.op = "Delete" /\ call'.name \notin DOMAIN elements)
        => UNCHANGED list]_vars

\* C13 witness: the third call was Delete(k) and the list holds the two
\* entries of the two calls before it, with a level above the base: k was not
\* indexed.
C13_Witness ==
  /\ call.op = "Delete"
  /\ call.name \in Keys
  /\ calls = 3
  /\ GetNodeCount(This) = 2
  /\ maxLevel >= 1

\* The head and tail sentinels.
Sentinels == {headNode, tailNode}

\* C14: no result of Find, FindByRank, FindGreaterOrEqual, GetSmallestNode,
\* GetLargestNode, nor of Next() or Prev() of a live node, is a sentinel;
\* Next() of the largest node and Prev() of the smallest node are nil; the
\* names of the sentinels are not in the index.
C14_SentinelsHidden ==
  /\ \A k \in Names : Find(This, k) \notin Sentinels
  /\ \A r \in (-1) .. (MaxKeys + 2) : FindByRank(This, r) \notin Sentinels
  /\ \A s \in QueryScores \cup {NegInf, PosInf} :
       FindGreaterOrEqual(This, s) \notin Sentinels
  /\ GetSmallestNode(This) \notin Sentinels
  /\ GetLargestNode(This) \notin Sentinels
  /\ \A n \in Live(This) \ Sentinels :
       Next0(This, n) \notin Sentinels /\ Prev0(This, n) \notin Sentinels
  /\ ~IsEmpty(This) =>
       /\ Next0(This, GetLargestNode(This)) = Nil
       /\ Prev0(This, GetSmallestNode(This)) = Nil
  /\ HeadNodeName \notin DOMAIN elements
  /\ TailNodeName \notin DOMAIN elements

\* C14 witness: three entries on a list with a level above the base, where the
\* descent of FindGreaterOrEqual for some score ends its walk at the head.
C14_Witness ==
  /\ GetNodeCount(This) = 3
  /\ Len(BaseChain(This)) = 3
  /\ maxLevel >= 1
  /\ next[GetLargestNode(This)][0] = tailNode
  /\ prev[GetSmallestNode(This)] = headNode
  /\ \E s \in QueryScores :
       /\ greaterThan(s, score[next[headNode][0]])
       /\ ~greaterThan(s, score[prev[tailNode]])
       /\ FindGELevels(This, s, maxLevel - 1, WalkScore(This, maxLevel, headNode, s)) \in RealNodes

\* The base level of the start/end-pointer variant from node n on.
RECURSIVE LegacyBaseFrom(_, _)
LegacyBaseFrom(t, n) ==
  IF n = Nil THEN << >> ELSE <<n>> \o LegacyBaseFrom(t, t.next[n][0])

LegacyBaseChain(t) == LegacyBaseFrom(t, t.startLevels[0])

\* The first base-level node of the variant whose score is >= s, or Nil.
LegacyFirstAtLeast(t, s) ==
  LET chain == LegacyBaseChain(t)
      at == {j \in 1 .. Len(chain) : t.score[chain[j]] >= s}
  IN IF at = {} THEN Nil ELSE chain[CHOOSE j \in at : \A m \in at : j <= m]

\* C15: in the start/end-pointer variant, whatever levels were drawn, for every
\* score s with minimum score < s <= maximum score FindGreaterOrEqual(s) is
\* the first base-level node whose score is >= s, and never nil.
C15_LegacyFindGreaterOrEqual ==
  ~LegacyIsEmpty(legacy) =>
    \A s \in SepScores :
      (/\ legacy.score[legacy.startLevels[0]] < s
       /\ s <= legacy.score[legacy.endLevels[0]])
      => /\ LegacyFindGreaterOrEqual(legacy, s) /= Nil
         /\ LegacyFindGreaterOrEqual(legacy, s) = LegacyFirstAtLeast(legacy, s)

\* The rank of a node on the base level: 0 for the head, j for the j-th entry,
\* count + 1 for the tail.
RankOf(t, n) ==
  LET chain == BaseChain(t)
  IN IF n = headNode THEN 0
     ELSE IF n = tailNode THEN Len(chain) + 1
     ELSE CHOOSE j \in 1 .. Len(chain) : chain[j] = n

\* C16: under calls whose scores are pairwise equal or more than Eps apart, for
\* every level L of the MaxLevel levels and every node n with a forward link at
\* L (the head at unused levels included), n.span[L] is the number of
\* base-level steps from n to n.next[L].
C16_SpanIsDistance ==
  \A L \in Levels, n \in Live(This) :
    next[n][L] /= Nil => span[n][L] = RankOf(This, next[n][L]) - RankOf(This, n)

\* C17: no call of Insert, a re-scoring one included, lowers maxLevel; only a
\* call of Delete does.
C17_InsertNeverLowers ==
  [][/\ call'.op = "Insert" => maxLevel' >= maxLevel
     /\ maxLevel' < maxLevel => call'.op = "Delete"]_vars

\* The call recorded in the next state re-scores an indexed key: Insert(k, s)
\* with k indexed at a score more than Eps from s.
Rescores ==
  /\ call'.op = "Insert"
  /\ call'.name \in DOMAIN elements
  /\ ~equalFloat(elements[call'.name], call'.score)

\* C17 amended: Insert of a key that is not indexed never lowers maxLevel;
\* maxLevel is lowered only by a call of Delete or by an Insert that re-scores
\* an indexed key, which runs Delete before it inserts, and such an Insert
\* ends with maxLevel at or above the one its Delete leaves.
C17_FreshInsertNeverLowers ==
  [][/\ (call'.op = "Insert" /\ ~Rescores) => maxLevel' >= maxLevel
     /\ maxLevel' < maxLevel => (call'.op = "Delete" \/ Rescores)
     /\ Rescores => maxLevel' >= Delete(This, call'.name).maxLevel]_vars

\* C17 witness: two calls, both Inserts of keys not indexed, each raising
\* maxLevel by one.
C17_Witness ==
  /\ calls = 2
  /\ call.op = "Insert"
  /\ call.drew
  /\ GetNodeCount(This) = 2
  /\ maxLevel = 2

\* The real nodes on level L from node n on, at most fuel of them.
RECURSIVE LevelNodes(_, _, _, _)
LevelNodes(t, L, n, fuel) ==
  IF n = tailNode \/ n = Nil \/ fuel = 0 THEN {}
  ELSE {n} \cup LevelNodes(t, L, t.next[n][L], fuel - 1)

OnLevel(t, L) == LevelNodes(t, L, t.next[headNode][L], MaxNodes + 1)

\* The list on which Insert(nm, ...) draws its level and allocates: the list
\* itself for a name not indexed, the list after Delete(nm) for a re-score.
BeforeDraw(t, nm) == IF nm \in DOMAIN t.elements THEN Delete(t, nm) ELSE t

Min(a, b) == IF a <= b THEN a ELSE b

\* C18: maxLevel is within 0..MaxLevel-1; every Insert that is not a no-op,
\* whatever level it draws, raises maxLevel by at most one and puts the new
\* node on exactly the levels 0..min(drawn level, old maxLevel + 1), the old
\* maxLevel being that before the call.
C18_LevelGrowth ==
  /\ maxLevel \in 0 .. (MaxLevel - 1)
  /\ FreeNodes(This) /= {} =>
       \A k \in Keys, sc \in Scores, r \in DrawReps :
         ~InsertReturnsEarly(This, k, sc) =>
           LET after == Insert(This, k, sc, r)
               elem == NewElement(BeforeDraw(This, k), k)
           IN /\ after.maxLevel <= maxLevel + 1
              /\ {L \in Levels : elem \in OnLevel(after, L)} =
                   0 .. Min(generateLevel(r), maxLevel + 1)

\* C18 amended: as C18, with the levels of the new node being
\* 0..min(drawn level, m + 1) for m the maxLevel at the draw: the maxLevel
\* before the call for a key not indexed, the maxLevel left by the Delete that
\* a re-scoring Insert runs first otherwise.
C18_LevelGrowthAtDraw ==
  /\ maxLevel \in 0 .. (MaxLevel - 1)
  /\ FreeNodes(This) /= {} =>
       \A k \in Keys, sc \in Scores, r \in DrawReps :
         ~InsertReturnsEarly(This, k, sc) =>
           LET after == Insert(This, k, sc, r)
               elem == NewElement(BeforeDraw(This, k), k)
           IN /\ after.maxLevel <= maxLevel + 1
              /\ {L \in Levels : elem \in OnLevel(after, L)} =
                   0 .. Min(generateLevel(r), BeforeDraw(This, k).maxLevel + 1)

\* C18 witness: a list at maxLevel 2 with room for a node, where an Insert can
\* draw a level above maxLevel + 1 of the list at the draw, and where
\* re-scoring some key has its Delete lower maxLevel by two.
C18_Witness ==
  /\ maxLevel = MaxLevel - 1
  /\ FreeNodes(This) /= {}
  /\ \E k \in DOMAIN elements, r \in DrawReps :
       /\ BeforeDraw(This, k).maxLevel = 0
       /\ generateLevel(r) > 1

\* maxLevel of t is the highest populated level: the levels 1..maxLevel hold a
\* real node and the levels above hold none.
HighestPopulated(t) ==
  /\ \A L \in 1 .. t.maxLevel : t.next[headNode][L] /= tailNode
  /\ \A L \in Levels : L > t.maxLevel => t.next[headNode][L] = tailNode

\* C19: in every state maxLevel is the highest populated level, also in the
\* state a Delete leaves when it empties several top levels at once.
C19_MaxLevelIsHighest ==
  /\ HighestPopulated(This)
  /\ \A k \in Keys : HighestPopulated(Delete(This, k))

\* C19 witness: a list of at least two entries at maxLevel 2 where the Delete
\* of some key empties the levels 2 and 1 at once.
C19_Witness ==
  /\ maxLevel = 2
  /\ GetNodeCount(This) >= 2
  /\ \E k \in DOMAIN elements :
       /\ Delete(This, k).maxLevel = 0
       /\ GetNodeCount(Delete(This, k)) = GetNodeCount(This) - 1

\* The chain of level L from the head: the nodes after the head up to the
\* tail, nil, or MaxNodes + 1 nodes, whichever comes first, and the node at
\* which the walk stopped.
RECURSIVE LevelFrom(_, _, _, _)
LevelFrom(t, L, n, fuel) ==
  IF n = tailNode \/ n = Nil \/ fuel = 0 THEN [chain |-> << >>, last |-> n]
  ELSE LET rest == LevelFrom(t, L, t.next[n][L], fuel - 1)
       IN [chain |-> <<n>> \o rest.chain, last |-> rest.last]

LevelChain(t, L) == LevelFrom(t, L, t.next[headNode][L], MaxNodes + 1)

\* C20: on every level L of the MaxLevel levels the chain from the head is
\* finite, acyclic, ends at the tail and is strictly ascending in (score,
\* name) order, and the nodes of level L + 1 are nodes of level L.
C20_LevelStructure ==
  \A L \in Levels :
    LET c == LevelChain(This, L)
    IN /\ c.last = tailNode
       /\ \A a \in 1 .. Len(c.chain), b \in 1 .. Len(c.chain) :
            a < b => /\ c.chain[a] /= c.chain[b]
                     /\ Before(This, c.chain[a], c.chain[b])
       /\ L + 1 \in Levels => OnLevel(This, L + 1) \subseteq OnLevel(This, L)

\* C21: for every edge a -> b of the base level, from the head or a real node
\* to a real node or the tail, b.prev = a; tail.prev is the largest node, or
\* the head of an empty list; GetLargestNode() is the last node of the forward
\* walk; and for every node x of the list (a node on the base level between
\* the head and the tail) with x.Next() = y, not nil, y.Prev() = x.
C21_BackwardLinks ==
  LET chain == BaseChain(This)
      walk == <<headNode>> \o chain \o <<tailNode>>
  IN /\ \A j \in 1 .. (Len(walk) - 1) : prev[walk[j + 1]] = walk[j]
     /\ prev[tailNode] = walk[Len(walk) - 1]
     /\ GetLargestNode(This) = IF chain = << >> THEN Nil ELSE chain[Len(chain)]
     /\ \A j \in 1 .. Len(chain) :
          LET x == chain[j]
          IN Next0(This, x) /= Nil => Prev0(This, Next0(This, x)) = x

\* C21 witness: three entries on a list with a level above the base, the last
\* call being the Insert of the node between the two others.
C21_Witness ==
  /\ Len(BaseChain(This)) = 3
  /\ maxLevel >= 1
  /\ call.op = "Insert"
  /\ call.drew
  /\ LET e == Find(This, call.name)
     IN e \in RealNodes /\ prev[e] \in RealNodes /\ next[e][0] \in RealNodes

\* C22: after calls with arbitrary finite scores, scores closer than Eps
\* included, the keys of the index are the names of the real nodes on the base
\* level, each name is on exactly one base-level node, whose score is the
\* indexed score, and Delete of an indexed key removes the key from the index
\* and its node from every level.
C22_IndexAgreesWithStructure ==
  LET chain == BaseChain(This)
  IN /\ DOMAIN elements = {name[chain[j]] : j \in 1 .. Len(chain)}
     /\ \A a \in 1 .. Len(chain), b \in 1 .. Len(chain) :
          a /= b => name[chain[a]] /= name[chain[b]]
     /\ \A j \in 1 .. Len(chain) : score[chain[j]] = elements[name[chain[j]]]
     /\ \A k \in DOMAIN elements :
          LET after == Delete(This, k)
          IN /\ k \notin DOMAIN after.elements
             /\ \A L \in Levels : \A n \in OnLevel(after, L) : after.name[n] /= k

\* The number of trailing zero bits of x > 0: the highest power of two that
\* divides x.
TrailingZeroBits(x) ==
  CHOOSE k \in 0 .. DrawBits : x % (2 ^ k) = 0 /\ x % (2 ^ (k + 1)) /= 0

\* C26: for every value drawn, generateLevel returns a level in
\* 0..MaxLevel-1: the number of trailing zero bits of the value masked to its
\* low MaxLevel-1 bits when that is not zero, and MaxLevel-1 when it is zero.
C26_GenerateLevel ==
  draw /= NoDraw =>
    LET masked == draw % (2 ^ (MaxLevel - 1))
    IN /\ levelDrawn \in 0 .. (MaxLevel - 1)
       /\ masked /= 0 => levelDrawn = TrailingZeroBits(masked)
       /\ masked = 0 => levelDrawn = MaxLevel - 1

\* C26 witness: a value with bits set above the mask and none under it, for
\* which generateLevel returned MaxLevel-1.
C26_Witness ==
  /\ draw /= NoDraw
  /\ draw >= 2 ^ (MaxLevel - 1)
  /\ draw % (2 ^ (MaxLevel - 1)) = 0
  /\ levelDrawn = MaxLevel - 1

\* C23: two runs of the same calls that differ only in the levels drawn agree
\* after every call on every public query: the base-level sequence,
\* GetNodeCount, Find and GetScore, GetRank of every key, FindByRank of every
\* rank and FindGreaterOrEqual of every score.
C23_LevelIndependence ==
  /\ Observed(This) = Observed(twin)
  /\ \A k \in Keys :
       /\ Shown(This, Find(This, k)) = Shown(twin, Find(twin, k))
       /\ GetScore(This, k) = GetScore(twin, k)

\* C24: the whole structure of a list made by NewSeed(seed) (the levels of the
\* nodes, the links, the spans, maxLevel) after a sequence of calls is the one
\* the same seed and calls give in a program that does nothing else, also
\* when the program makes or changes other SkipLists between the calls.
C24_SeedDeterminism == This = twin

\* More right-moves than any walk on a chain of the heap can make.
Fuel == MaxNodes + 2

\* The loop "for nextNode.Less(score, name)" of Insert, Delete, Find and
\* GetRank on level i from currNode: the right-moves made, the node reached,
\* and ok = FALSE when the loop calls Less on a nil nextNode or makes more than
\* fuel moves.
RECURSIVE LessMoves(_, _, _, _, _, _)
LessMoves(t, i, currNode, sc, nm, fuel) ==
  LET nextNode == t.next[currNode][i]
  IN IF nextNode = Nil \/ fuel = 0 THEN [moves |-> 0, node |-> currNode, ok |-> FALSE]
     ELSE IF ~Less(t, nextNode, sc, nm) THEN [moves |-> 0, node |-> currNode, ok |-> TRUE]
     ELSE LET w == LessMoves(t, i, nextNode, sc, nm, fuel - 1)
          IN [moves |-> w.moves + 1, node |-> w.node, ok |-> w.ok]

\* The loop "for lessThan(nextNode.score, score)" of FindGreaterOrEqual.
RECURSIVE ScoreMoves(_, _, _, _, _)
ScoreMoves(t, i, currNode, sc, fuel) ==
  LET nextNode == t.next[currNode][i]
  IN IF nextNode = Nil \/ fuel = 0 THEN [moves |-> 0, node |-> currNode, ok |-> FALSE]
     ELSE IF ~lessThan(t.score[nextNode], sc) THEN [moves |-> 0, node |-> currNode, ok |-> TRUE]
     ELSE LET w == ScoreMoves(t, i, nextNode, sc, fuel - 1)
          IN [moves |-> w.moves + 1, node |-> w.node, ok |-> w.ok]

\* The scan "for curr := currNode; curr != t.tailNode; curr = curr.next[0]" of
\* FindGreaterOrEqual.
RECURSIVE ScanMoves(_, _, _, _)
ScanMoves(t, curr, sc, fuel) ==
  IF curr = Nil \/ fuel = 0 THEN [moves |-> 0, ok |-> FALSE]
  ELSE IF curr = tailNode \/ ~lessThan(t.score[curr], sc) THEN [moves |-> 0, ok |-> TRUE]
  ELSE LET w == ScanMoves(t, t.next[curr][0], sc, fuel - 1)
       IN [moves |-> w.moves + 1, ok |-> w.ok]

\* The loop "for currNode.next[i] != t.tailNode" of FindByRank.
RECURSIVE SpanMoves(_, _, _, _, _, _)
SpanMoves(t, i, currNode, elemRank, rank, fuel) ==
  LET nextNode == t.next[currNode][i]
  IN IF nextNode = Nil \/ fuel = 0
     THEN [moves |-> 0, node |-> currNode, rank |-> elemRank, ok |-> FALSE]
     ELSE IF nextNode = tailNode \/ elemRank + t.span[currNode][i] > rank
     THEN [moves |-> 0, node |-> currNode, rank |-> elemRank, ok |-> TRUE]
     ELSE LET w == SpanMoves(t, i, nextNode, elemRank + t.span[currNode][i], rank, fuel - 1)
          IN [moves |-> w.moves + 1, node |-> w.node, rank |-> w.rank, ok |-> w.ok]

\* The level loop "for i := t.maxLevel; i >= 0; i--" around LessMoves, run to
\* level 0: every level's walk ends, without a nil nextNode, after at most
\* limit right-moves.
RECURSIVE LessDescentEnds(_, _, _, _, _, _)
LessDescentEnds(t, sc, nm, i, startNode, limit) ==
  LET w == LessMoves(t, i, startNode, sc, nm, Fuel)
  IN /\ w.ok
     /\ w.moves <= limit
     /\ t.next[w.node][i] /= Nil
     /\ i > 0 => LessDescentEnds(t, sc, nm, i - 1, w.node, limit)

\* The same for the level loop of FindGreaterOrEqual, with its scan on level 0.
RECURSIVE ScoreDescentEnds(_, _, _, _, _)
ScoreDescentEnds(t, sc, i, startNode, limit) ==
  LET w == ScoreMoves(t, i, startNode, sc, Fuel)
  IN /\ w.ok
     /\ w.moves <= limit
     /\ IF i > 0 THEN ScoreDescentEnds(t, sc, i - 1, w.node, limit)
        ELSE LET c == ScanMoves(t, w.node, sc, Fuel)
             IN c.ok /\ c.moves <= limit

\* The same for the level loop of FindByRank.
RECURSIVE SpanDescentEnds(_, _, _, _, _, _)
SpanDescentEnds(t, rank, i, startNode, startRank, limit) ==
  LET w == SpanMoves(t, i, startNode, startRank, rank, Fuel)
  IN /\ w.ok
     /\ w.moves <= limit
     /\ (i > 0 /\ w.rank /= rank) =>
          SpanDescentEnds(t, rank, i - 1, w.node, w.rank, limit)

\* Every public operation on t ends within limit right-moves per level.
OperationsEnd(t, limit) ==
  /\ t.maxLevel \in Levels
  /\ \A k \in DOMAIN t.elements :
       LessDescentEnds(t, t.elements[k], k, t.maxLevel, headNode, limit)
  /\ \A k \in Keys, sc \in Scores :
       LET b == BeforeDraw(t, k)
       IN ~InsertReturnsEarly(t, k, sc) =>
            LessDescentEnds(b, sc, k, b.maxLevel, headNode, limit)
  /\ \A sc \in QueryScores :
       (/\ ~IsEmpty(t)
        /\ greaterThan(sc, t.score[t.next[headNode][0]])
        /\ ~greaterThan(sc, t.score[t.prev[tailNode]]))
       => ScoreDescentEnds(t, sc, t.maxLevel, headNode, limit)
  /\ \A rank \in 1 .. GetNodeCount(t) :
       SpanDescentEnds(t, rank, t.maxLevel, headNode, 0, limit)

\* C25: in every reachable state Insert, Delete, Find, FindGreaterOrEqual,
\* GetRank and FindByRank terminate: each descent makes at most (number of
\* nodes + 1) right-moves per level and at most maxLevel + 1 down-moves, and
\* never reads the next pointer of nil; the chain of every level ends at the
\* tail.  The nodes counted are the real nodes on the base level.
C25_Termination ==
  /\ \A L \in Levels : LevelChain(This, L).last = tailNode
  /\ OperationsEnd(This, Len(LevelChain(This, 0).chain) + 1)

\* C25 witness: three entries on a list with a level above the base, where
\* the descent for some key moves right on the top level and again on the base
\* level, and FindGreaterOrEqual of some score walks the whole base level.
C25_Witness ==
  /\ Len(BaseChain(This)) = 3
  /\ maxLevel >= 1
  /\ \E k \in DOMAIN elements :
       LET w == LessMoves(This, maxLevel, headNode, elements[k], k, Fuel)
       IN /\ w.moves >= 1
          /\ LessMoves(This, 0, w.node, elements[k], k, Fuel).moves >= 1
  /\ \E sc \in QueryScores :
       ScoreMoves(This, 0, headNode, sc, Fuel).moves = Len(BaseChain(This))

\* The (name, score) pairs of the base level of the start/end-pointer variant.
LegacyEntries(t) == EntriesOf(t, LegacyBaseChain(t))

\* The base-level nodes of the variant that are on level L, in order.
LegacyOnLevel(t, L) == SelectSeq(LegacyBaseChain(t), LAMBDA n : t.level[n] >= L)

\* The name of a node returned, 0 for nil.
NameOf(t, e) == IF e = Nil THEN 0 ELSE t.name[e]

\* The two variants answer alike: the same base-level sequence of (name,
\* score), the same count, and nodes of the same name (or nil both) from Find.
SameEntries ==
  /\ Entries(This) = LegacyEntries(legacy)
  /\ GetNodeCount(This) = LegacyGetNodeCount(legacy)
  /\ \A k \in Keys : NameOf(This, Find(This, k)) = NameOf(legacy, LegacyFind(legacy, k))

\* ... and from FindGreaterOrEqual of every score.
SameFindGreaterOrEqual ==
  \A s \in QueryScores :
    NameOf(This, FindGreaterOrEqual(This, s)) =
      NameOf(legacy, LegacyFindGreaterOrEqual(legacy, s))

\* startLevels[L] and endLevels[L] are the first and the last node of level L
\* for every L <= maxLevel, and nil above.
StartEndPointers ==
  \A L \in Levels :
    LET on == LegacyOnLevel(legacy, L)
    IN IF L <= legacy.maxLevel /\ on /= << >>
       THEN /\ legacy.startLevels[L] = on[1]
            /\ legacy.endLevels[L] = on[Len(on)]
       ELSE /\ legacy.startLevels[L] = Nil
            /\ legacy.endLevels[L] = Nil

\* C27: the span variant and the start/end-pointer variant, run side by side
\* on the same calls with levels drawn independently, have equal base-level
\* sequences of (name, score) after every call, agree on GetNodeCount, and
\* return nodes of the same name (or nil both) from Find and
\* FindGreaterOrEqual for every argument; and in the start/end-pointer variant
\* startLevels[L] and endLevels[L] are the first and last node of level L for
\* every L <= maxLevel and nil above it.
C27_VariantsAgree ==
  /\ ~legacy.panic
  /\ SameEntries
  /\ SameFindGreaterOrEqual
  /\ StartEndPointers

\* No goroutine is inside a call.
Quiescent == \A c \in Callers : callers[c].pc = "idle"

\* The place of node n on the base-level walk chain: 0 for the head, j for the
\* j-th entry, one past the last for the tail, -1 for a node that is not on it.
PlaceOn(chain, n) ==
  IF n = headNode THEN 0
  ELSE IF n = tailNode THEN Len(chain) + 1
  ELSE IF \E j \in 1 .. Len(chain) : chain[j] = n
       THEN CHOOSE j \in 1 .. Len(chain) : chain[j] = n
       ELSE -1

\* The base level runs from the head to the tail in ascending order.
OrderHolds ==
  LET c == LevelChain(This, 0)
  IN /\ c.last = tailNode
     /\ \A a \in 1 .. Len(c.chain), b \in 1 .. Len(c.chain) :
          a < b => Before(This, c.chain[a], c.chain[b])

\* Every forward link of a base-level node or of the head that leads to a node
\* of targets leads to a base-level node, over as many base-level steps as its
\* span says.
SpansHold(targets) ==
  LET chain == LevelChain(This, 0).chain
  IN \A L \in Levels, n \in {headNode} \cup {chain[j] : j \in 1 .. Len(chain)} :
       next[n][L] \in targets =>
         /\ PlaceOn(chain, next[n][L]) >= 0
         /\ span[n][L] = PlaceOn(chain, next[n][L]) - PlaceOn(chain, n)

\* The index holds the names of the base level, each once, at its score.
IndexHolds ==
  LET chain == LevelChain(This, 0).chain
  IN /\ DOMAIN elements = {name[chain[j]] : j \in 1 .. Len(chain)}
     /\ \A a \in 1 .. Len(chain), b \in 1 .. Len(chain) :
          a /= b => name[chain[a]] /= name[chain[b]]
     /\ \A j \in 1 .. Len(chain) : score[chain[j]] = elements[name[chain[j]]]

\* What one lock around every call does keep, with scores equal or more than
\* Eps apart: the order, the index, and the spans of the links to entries.
LockKeeps ==
  (serial /\ Quiescent) => (OrderHolds /\ IndexHolds /\ SpansHold(RealNodes))

\* Without the lock two calls that have both returned leave a list that one
\* lock would have excluded, or one of them dereferences nil.
RaceBreaks ==
  /\ ~serial
  /\ \/ Quiescent /\ ~(OrderHolds /\ IndexHolds /\ SpansHold(RealNodes))
     \/ \E c \in Callers : callers[c].pc = "panic"

\* C28: when every call of Insert and Delete runs under one lock of the
\* callers, the total-order, span and index invariants hold whenever no call
\* is in progress, for every interleaving of the callers.
C28_LockKeepsInvariants ==
  (serial /\ Quiescent) => (OrderHolds /\ SpansHold(Nodes \ {Nil}) /\ IndexHolds)

====
